---- MODULE Spec2Model ----
\* The array inquiry entry points of flang/runtime/inquiry.cpp (LboundDim,
\* Ubound, Size, SizeDim, Shape) and the kind-polymorphic raw store they use,
\* as a state machine: one caller issues calls against one input descriptor;
\* a call either returns to the caller or ends the process in Terminator::Crash.
EXTENDS Integers, Sequences, FiniteSets, TLC

VARIABLES
  array,    \* the input descriptor: a sequence of axes [lb, ext]; rank() = Len(array)
  result,   \* the descriptor Ubound builds (its out-argument)
  buf,      \* the raw buffer Shape writes (its out-argument), by element index
  pc,       \* "idle", a position inside a call, "returned" or "crashed"
  call,     \* the arguments of the call in progress (or just finished)
  i,        \* the loop index of Ubound, Size and Shape
  sizeAcc,  \* Size's local accumulator `result`
  stat,     \* the status result.Allocate() returned in this call
  ret,      \* the value returned to the caller: <<>> or <<v>>
  term,     \* the diagnostic of the crash: <<>> or <<[file, line, msg, args]>>
  allocs,   \* number of Allocate() calls made by the call in progress
  reads,    \* the 0-based indices handed to array.GetDimension in this call
  store     \* the arguments of the one direct raw store of StoreSpec: <<>> or <<r>>

vars == <<array, result, buf, pc, call, i, sizeAcc, stat, ret, term, allocs, reads, store>>

-----------------------------------------------------------------------------
\* Bounds and input sets

\* Ranks explored are 0..MaxModelRank (the runtime allows up to maxRank).
MaxModelRank == 2

\* common::maxRank, the limit Shape's INTERNAL_CHECK compares against.
maxRank == 15

\* The axes an input descriptor is built from: the two axes of the documented
\* scenario (1..5 and 0..2), an empty axis, and one whose extent and upper
\* bound do not fit in one byte.
Axes ==
  { [lb |-> 1, ext |-> 5], [lb |-> 0, ext |-> 3],
    [lb |-> -1, ext |-> 0], [lb |-> 100, ext |-> 200] }

Arrays == UNION { [1..n -> Axes] : n \in 0..MaxModelRank }

\* The integer kinds ApplyIntegerKind dispatches on, and one it does not know.
ValidKinds == {1, 2, 4, 8, 16}
Kinds == ValidKinds \cup {3}

Dims == -1..(MaxModelRank + 1)

\* Call sites in the caller's source.
Sites == { [file |-> "a.f90", line |-> 10], [file |-> "b.f90", line |-> 20] }

\* Statuses result.Allocate() may return (0 = success).
AllocStats == {0, 12}

\* Values handed to the raw store in StoreSpec.
StoreValues == {-40000, -129, -128, -1, 0, 127, 128, 200, 255, 256, 32767, 32768, 65541}

-----------------------------------------------------------------------------
\* Descriptor accessors and helpers

rank(a) == Len(a)

\* array.GetDimension(j): inside [0, rank) the axis; outside it the read is
\* undefined behaviour and may produce any axis value.
GetDimension(a, j) == IF j \in 0..(rank(a) - 1) THEN {a[j + 1]} ELSE Axes

LowerBound(dimension) == dimension.lb
Extent(dimension) == dimension.ext
UpperBound(dimension) == dimension.lb + dimension.ext - 1

\* Conversion of a std::int64_t to the signed integer of KIND bytes: the value
\* modulo 2^(8*KIND), read as two's complement. Every value of the model lies
\* within 32 bits, where the kinds of 4 bytes and more convert exactly.
Narrow(value, KIND) ==
  IF KIND >= 4 THEN value
  ELSE LET m == value % (2 ^ (8 * KIND))
       IN  IF m >= 2 ^ (8 * KIND - 1) THEN m - 2 ^ (8 * KIND) ELSE m

RawStoreUnnarrowed(contiguousIntegerArray, at, value, KIND) ==
  [contiguousIntegerArray EXCEPT ![at] = <<value>>]

RawStoreNextElement(contiguousIntegerArray, at, value, KIND) ==
  [contiguousIntegerArray EXCEPT ![at + 1] = <<Narrow(value, KIND)>>]

\* RawStoreIntegerAt<KIND>::operator(): one element of KIND bytes at index `at`.
RawStoreIntegerAt(contiguousIntegerArray, at, value, KIND) ==
  [contiguousIntegerArray EXCEPT ![at] = <<Narrow(value, KIND)>>]

\* StoreIntegerAt<KIND>::operator(): the same store into a descriptor's data.
StoreIntegerAt(res, at, value, KIND) ==
  [res EXCEPT !.data[at + 1] = <<Narrow(value, KIND)>>]

\* A descriptor nothing has established yet.
NoDescriptor ==
  [established |-> FALSE, kind |-> 0, rank |-> 0, lb |-> 0, extent |-> 0,
   allocated |-> FALSE, data |-> <<>>]

\* result.Establish(TypeCategory::Integer, kind, nullptr, 1, extent, allocatable):
\* a fresh rank-1 descriptor; the lower bound it leaves is lb0.
Establish(kind, extent, lb0) ==
  [established |-> TRUE, kind |-> kind, rank |-> 1, lb |-> lb0, extent |-> extent,
   allocated |-> FALSE, data |-> <<>>]

\* Dimension::SetBounds(lower, upper)
SetBounds(res, lower, upper) ==
  [res EXCEPT !.lb = lower,
              !.extent = IF upper >= lower THEN upper - lower + 1 ELSE 0]

\* result.Allocate() returning st
Allocate(res, st) ==
  IF st = 0
  THEN [res EXCEPT !.allocated = TRUE, !.data = [j \in 1..res.extent |-> <<>>]]
  ELSE res

\* A caller's buffer none of whose elements has been written.
FreshBuffer == [j \in 0..MaxModelRank |-> <<>>]

NoCall == [op |-> "none", dim |-> 0, kind |-> 0, site |-> [file |-> "", line |-> 0]]

\* Diagnostics
BadDimMsg == "SIZE: bad DIM=%d for ARRAY with rank=%d"
AllocMsg == "UBOUND: could not allocate memory for result; STAT=%d"
KindMsg == "not yet implemented: INTEGER(KIND=%d)"
InternalMsg == "Internal error: RUNTIME_CHECK failed"
RuntimeFile == "flang/runtime/inquiry.cpp"
ShapeTerminatorLine == 89

\* Terminator{sourceFile, line}
Terminator(sourceFile, line) == [file |-> sourceFile, line |-> line]

\* terminator.Crash(msg, args...): ends the process, never returns.
Crash(terminator, msg, args) ==
  /\ pc' = "crashed"
  /\ term' = << [file |-> terminator.file, line |-> terminator.line,
                 msg |-> msg, args |-> args] >>

-----------------------------------------------------------------------------
\* Conditions and expressions of the entry points

BadDimZeroAccepted(dim, a) == dim < 0 \/ dim > rank(a)

\* if (dim < 1 || dim > array.rank())
BadDim(dim, a) == dim < 1 \/ dim > rank(a)

AxisIndexOneBased(dim) == dim

\* array.GetDimension(dim - 1)
AxisIndex(dim) == dim - 1

AllocFailedNegative(st) == st < 0

\* if (int stat{result.Allocate()})
AllocFailed(st) == st # 0

UboundStoresExtent(dimension) == Extent(dimension)

\* storeIntegerAt(i, dimension.UpperBound())
UboundStoreValue(dimension) == UpperBound(dimension)

SizeAccumulateSum(acc, dimension) == acc + Extent(dimension)

\* result *= dimension.Extent()
SizeAccumulate(acc, dimension) == acc * Extent(dimension)

ShapeLoopStopsEarly(k, a) == k < rank(a) - 1

\* for (SubscriptValue i{0}; i < array.rank(); ++i) in Shape
ShapeLoopCond(k, a) == k < rank(a)

-----------------------------------------------------------------------------
\* The state after construction: the caller holds an input descriptor, no
\* call has been made.

Init ==
  /\ array \in Arrays
  /\ result = NoDescriptor
  /\ buf = FreshBuffer
  /\ pc = "idle"
  /\ call = NoCall
  /\ i = 0
  /\ sizeAcc = 1
  /\ stat = 0
  /\ ret = <<>>
  /\ term = <<>>
  /\ allocs = 0
  /\ reads = {}
  /\ store = <<>>

\* LboundDim(array, dim, sourceFile, line)
LboundDim ==
  \E d \in Dims, s \in Sites :
    /\ pc = "idle"
    /\ call' = [op |-> "LboundDim", dim |-> d, kind |-> 0, site |-> s]
    /\ IF BadDim(d, array)
       THEN /\ Crash(Terminator(s.file, s.line), BadDimMsg, <<d, rank(array)>>)
            /\ UNCHANGED <<ret, reads>>
       ELSE \E dimension \in GetDimension(array, AxisIndex(d)) :
              /\ reads' = {AxisIndex(d)}
              /\ ret' = <<LowerBound(dimension)>>
              /\ pc' = "returned"
              /\ UNCHANGED term
    /\ UNCHANGED <<array, result, buf, i, sizeAcc, stat, allocs, store>>

\* SizeDim(array, dim, sourceFile, line)
SizeDim ==
  \E d \in Dims, s \in Sites :
    /\ pc = "idle"
    /\ call' = [op |-> "SizeDim", dim |-> d, kind |-> 0, site |-> s]
    /\ IF BadDim(d, array)
       THEN /\ Crash(Terminator(s.file, s.line), BadDimMsg, <<d, rank(array)>>)
            /\ UNCHANGED <<ret, reads>>
       ELSE \E dimension \in GetDimension(array, AxisIndex(d)) :
              /\ reads' = {AxisIndex(d)}
              /\ ret' = <<Extent(dimension)>>
              /\ pc' = "returned"
              /\ UNCHANGED term
    /\ UNCHANGED <<array, result, buf, i, sizeAcc, stat, allocs, store>>

\* Size(array, sourceFile, line): entry, std::int64_t result{1}
SizeCall ==
  \E s \in Sites :
    /\ pc = "idle"
    /\ call' = [op |-> "Size", dim |-> 0, kind |-> 0, site |-> s]
    /\ sizeAcc' = 1
    /\ i' = 0
    /\ pc' = "Size_loop"
    /\ UNCHANGED <<array, result, buf, stat, ret, term, allocs, reads, store>>

\* Size: one turn of the loop, or the return after it
SizeLoop ==
  /\ pc = "Size_loop"
  /\ IF i < rank(array)
     THEN \E dimension \in GetDimension(array, i) :
            /\ reads' = reads \cup {i}
            /\ sizeAcc' = SizeAccumulate(sizeAcc, dimension)
            /\ i' = i + 1
            /\ UNCHANGED <<pc, ret>>
     ELSE /\ ret' = <<sizeAcc>>
          /\ pc' = "returned"
          /\ UNCHANGED <<reads, sizeAcc, i>>
  /\ UNCHANGED <<array, result, buf, call, stat, term, allocs, store>>

\* Ubound(result, array, kind, sourceFile, line): entry, result.Establish(...)
UboundEstablish ==
  \E k \in Kinds, s \in Sites, lb0 \in {0, 1} :
    /\ pc = "idle"
    /\ call' = [op |-> "Ubound", dim |-> 0, kind |-> k, site |-> s]
    /\ result' = Establish(k, rank(array), lb0)
    /\ pc' = "Ubound_SetBounds"
    /\ UNCHANGED <<array, buf, i, sizeAcc, stat, ret, term, allocs, reads, store>>

UboundSetBoundsOnArray ==
  /\ pc = "Ubound_SetBounds"
  /\ array' = IF rank(array) >= 1
              THEN [array EXCEPT ![1] = [lb |-> 1, ext |-> rank(array)]]
              ELSE array
  /\ pc' = "Ubound_Allocate"
  /\ UNCHANGED <<result, buf, call, i, sizeAcc, stat, ret, term, allocs, reads, store>>

\* Ubound: result.GetDimension(0).SetBounds(1, array.rank())
UboundSetBounds ==
  /\ pc = "Ubound_SetBounds"
  /\ result' = SetBounds(result, 1, rank(array))
  /\ pc' = "Ubound_Allocate"
  /\ UNCHANGED <<array, buf, call, i, sizeAcc, stat, ret, term, allocs, reads, store>>

\* Ubound: int stat{result.Allocate()}
UboundAllocate ==
  \E st \in AllocStats :
    /\ pc = "Ubound_Allocate"
    /\ stat' = st
    /\ allocs' = allocs + 1
    /\ result' = Allocate(result, st)
    /\ pc' = "Ubound_Check"
    /\ UNCHANGED <<array, buf, call, i, sizeAcc, ret, term, reads, store>>

\* Ubound: the test of stat, then INTERNAL_CHECK(result.rank() == 1)
UboundCheck ==
  /\ pc = "Ubound_Check"
  /\ IF AllocFailed(stat)
     THEN /\ Crash(Terminator(call.site.file, call.site.line), AllocMsg, <<stat>>)
          /\ UNCHANGED i
     ELSE IF result.rank # 1
     THEN /\ Crash(Terminator(call.site.file, call.site.line), InternalMsg, <<>>)
          /\ UNCHANGED i
     ELSE /\ pc' = "Ubound_Store"
          /\ i' = 0
          /\ UNCHANGED term
  /\ UNCHANGED <<array, result, buf, call, sizeAcc, stat, ret, allocs, reads, store>>

\* Ubound: one turn of the loop (ApplyIntegerKind<StoreIntegerAt>), or the return
UboundStore ==
  /\ pc = "Ubound_Store"
  /\ IF i < rank(array)
     THEN \E dimension \in GetDimension(array, i) :
            /\ reads' = reads \cup {i}
            /\ IF call.kind \in ValidKinds
               THEN /\ result' = StoreIntegerAt(result, i, UboundStoreValue(dimension), call.kind)
                    /\ i' = i + 1
                    /\ UNCHANGED <<pc, term>>
               ELSE /\ Crash(Terminator(call.site.file, call.site.line), KindMsg, <<call.kind>>)
                    /\ UNCHANGED <<result, i>>
     ELSE /\ pc' = "returned"
          /\ UNCHANGED <<result, i, term, reads>>
  /\ UNCHANGED <<array, buf, call, sizeAcc, stat, ret, allocs, store>>

\* Shape(result, array, kind): entry with the caller's buffer, the Terminator
\* of the runtime's own file and line, INTERNAL_CHECK(array.rank() <= maxRank)
ShapeCall ==
  \E k \in Kinds, s \in Sites :
    /\ pc = "idle"
    /\ call' = [op |-> "Shape", dim |-> 0, kind |-> k, site |-> s]
    /\ buf' = FreshBuffer
    /\ IF rank(array) > maxRank
       THEN /\ Crash(Terminator(RuntimeFile, ShapeTerminatorLine), InternalMsg, <<>>)
            /\ UNCHANGED i
       ELSE /\ pc' = "Shape_loop"
            /\ i' = 0
            /\ UNCHANGED term
    /\ UNCHANGED <<array, result, sizeAcc, stat, ret, allocs, reads, store>>

\* Shape: one turn of the loop (ApplyIntegerKind<RawStoreIntegerAt>), or the return
ShapeLoop ==
  /\ pc = "Shape_loop"
  /\ IF ShapeLoopCond(i, array)
     THEN \E dimension \in GetDimension(array, i) :
            /\ reads' = reads \cup {i}
            /\ IF call.kind \in ValidKinds
               THEN /\ buf' = RawStoreIntegerAt(buf, i, Extent(dimension), call.kind)
                    /\ i' = i + 1
                    /\ UNCHANGED <<pc, term>>
               ELSE /\ Crash(Terminator(RuntimeFile, ShapeTerminatorLine), KindMsg, <<call.kind>>)
                    /\ UNCHANGED <<buf, i>>
     ELSE /\ pc' = "returned"
          /\ UNCHANGED <<buf, i, term, reads>>
  /\ UNCHANGED <<array, result, call, sizeAcc, stat, ret, allocs, store>>

\* The caller goes on after a call has returned; the out-arguments stay its own.
CallerContinues ==
  /\ pc = "returned"
  /\ pc' = "idle"
  /\ call' = NoCall
  /\ i' = 0
  /\ sizeAcc' = 1
  /\ stat' = 0
  /\ ret' = <<>>
  /\ allocs' = 0
  /\ reads' = {}
  /\ UNCHANGED <<array, result, buf, term, store>>

Next ==
  \/ LboundDim
  \/ SizeDim
  \/ SizeCall
  \/ SizeLoop
  \/ UboundEstablish
  \/ UboundSetBounds
  \/ UboundAllocate
  \/ UboundCheck
  \/ UboundStore
  \/ ShapeCall
  \/ ShapeLoop
  \/ CallerContinues

Spec == Init /\ [][Next]_vars

-----------------------------------------------------------------------------
\* The raw store on its own: a buffer with earlier contents, one store of a
\* value of StoreValues at an index, under each kind.

StoreInit ==
  /\ array = <<>>
  /\ result = NoDescriptor
  /\ buf \in [0..MaxModelRank -> {<<>>, <<7>>}]
  /\ pc = "idle"
  /\ call = NoCall
  /\ i = 0
  /\ sizeAcc = 1
  /\ stat = 0
  /\ ret = <<>>
  /\ term = <<>>
  /\ allocs = 0
  /\ reads = {}
  /\ store = <<>>

\* RawStoreIntegerAt<KIND>{}(buf, at, value)
RawStore ==
  \E k \in ValidKinds, at \in 0..MaxModelRank, value \in StoreValues :
    /\ pc = "idle"
    /\ store' = << [at |-> at, value |-> value, kind |-> k] >>
    /\ buf' = RawStoreIntegerAt(buf, at, value, k)
    /\ pc' = "returned"
    /\ UNCHANGED <<array, result, call, i, sizeAcc, stat, ret, term, allocs, reads>>

StoreNext == RawStore

StoreSpec == StoreInit /\ [][StoreNext]_vars

-----------------------------------------------------------------------------
\* Properties

\* s is a signed integer of KIND bytes (values of the model lie within 32 bits)
InKindRange(s, KIND) ==
  KIND >= 4 \/ (-(2 ^ (8 * KIND - 1)) <= s /\ s < 2 ^ (8 * KIND - 1))

\* s is what a KIND-byte element holds after v was stored into it: in range
\* and congruent to v modulo 2^(8*KIND)
IsStoredFormOf(s, v, KIND) ==
  IF KIND >= 4 THEN s = v
  ELSE InKindRange(s, KIND) /\ (s - v) % (2 ^ (8 * KIND)) = 0

RECURSIVE ProductOfExtents(_)
ProductOfExtents(a) ==
  IF a = <<>> THEN 1 ELSE Head(a).ext * ProductOfExtents(Tail(a))

DimOps == {"LboundDim", "SizeDim"}

\* C1: with 1 <= dim <= rank, LboundDim returns the lower bound and SizeDim the
\* extent of axis dim-1, whatever the file and line arguments.
C1_DimInquiryReturnsAxis ==
  (call.op \in DimOps /\ call.dim \in 1..rank(array)) =>
    /\ pc = "returned"
    /\ ret = << IF call.op = "LboundDim" THEN array[call.dim].lb
                ELSE array[call.dim].ext >>

C1_Witness ==
  /\ pc = "returned" /\ call.op = "LboundDim" /\ call.dim = 2
  /\ rank(array) = 2 /\ array[1].lb = 1 /\ array[2].lb = 0
  /\ ret = <<0>>

\* C2: with dim < 1 or dim > rank (rank 0 included), LboundDim and SizeDim end
\* in the crash, return no value, and read no axis; no call ever reads an axis
\* outside [0, rank).
C2_BadDimIsFatal ==
  /\ (call.op \in DimOps /\ call.dim \notin 1..rank(array)) =>
       /\ pc = "crashed"
       /\ ret = <<>>
       /\ reads = {}
       /\ term # <<>> /\ term[1].msg = BadDimMsg
  /\ reads \subseteq 0..(rank(array) - 1)

C2_Witness ==
  /\ pc = "crashed" /\ call.op = "SizeDim" /\ call.dim = 3 /\ rank(array) = 2
  /\ ret = <<>>

UboundReturned == pc = "returned" /\ call.op = "Ubound"

UboundResultShape ==
  /\ result.established /\ result.allocated
  /\ result.rank = 1 /\ result.lb = 1 /\ result.extent = rank(array)
  /\ Len(result.data) = rank(array)

\* C3 as stated: after Ubound with a valid kind, the result has rank 1, lower
\* bound 1, length rank, and element i equals lower(i) + extent(i) - 1.
C3_UboundElementsEqualUpperBound ==
  (UboundReturned /\ call.kind \in ValidKinds) =>
    /\ UboundResultShape
    /\ \A j \in 1..rank(array) :
         result.data[j] = << array[j].lb + array[j].ext - 1 >>

\* C3 amended: the same, element i being lower(i) + extent(i) - 1 as a signed
\* integer of the requested kind: reduced modulo 2^(8*kind), and equal to it
\* whenever it fits (an axis of extent 0 gives lower - 1, rank 0 a length of 0).
C3_UboundElementsAreNarrowedUpperBound ==
  (UboundReturned /\ call.kind \in ValidKinds) =>
    /\ UboundResultShape
    /\ \A j \in 1..rank(array) :
         LET ub == array[j].lb + array[j].ext - 1
         IN  /\ Len(result.data[j]) = 1
             /\ IsStoredFormOf(result.data[j][1], ub, call.kind)
             /\ InKindRange(ub, call.kind) => result.data[j][1] = ub
             /\ array[j].ext = 0 /\ InKindRange(ub, call.kind)
                  => result.data[j][1] = array[j].lb - 1

C3_Witness ==
  /\ UboundReturned /\ call.kind = 1 /\ rank(array) = 2
  /\ array[1] = [lb |-> -1, ext |-> 0] /\ array[2] = [lb |-> 100, ext |-> 200]
  /\ result.data = << <<-2>>, <<43>> >>

ShapeReturned == pc = "returned" /\ call.op = "Shape"

\* C4 as stated: Shape with a valid kind writes exactly elements 0..rank-1,
\* element i being the extent of axis i, and allocates nothing.
C4_ShapeElementsEqualExtent ==
  /\ call.op = "Shape" => allocs = 0
  /\ (ShapeReturned /\ call.kind \in ValidKinds) =>
       \A j \in DOMAIN buf :
         buf[j] = IF j < rank(array) THEN << array[j + 1].ext >> ELSE <<>>

\* C4 amended: the same, element i being the extent of axis i as a signed
\* integer of the requested kind (reduced modulo 2^(8*kind), equal to the
\* extent whenever it fits).
C4_ShapeElementsAreNarrowedExtent ==
  /\ call.op = "Shape" => allocs = 0
  /\ (ShapeReturned /\ call.kind \in ValidKinds) =>
       \A j \in DOMAIN buf :
         IF j < rank(array)
         THEN /\ Len(buf[j]) = 1
              /\ IsStoredFormOf(buf[j][1], array[j + 1].ext, call.kind)
              /\ InKindRange(array[j + 1].ext, call.kind)
                   => buf[j][1] = array[j + 1].ext
         ELSE buf[j] = <<>>

C4_Witness ==
  /\ ShapeReturned /\ call.kind = 1 /\ rank(array) = 2
  /\ array[1].ext = 5 /\ array[2].ext = 200
  /\ buf[0] = <<5>> /\ buf[1] = <<-56>> /\ buf[2] = <<>>

\* C5: Size returns the product of all extents starting from 1 (rank 0 gives
\* 1, an axis of extent 0 gives 0), validates nothing and never crashes.
C5_SizeIsProduct ==
  /\ call.op = "Size" => (pc # "crashed" /\ term = <<>> /\ allocs = 0)
  /\ (pc = "returned" /\ call.op = "Size") =>
       /\ ret = << ProductOfExtents(array) >>
       /\ rank(array) = 0 => ret = <<1>>
       /\ (\E j \in 1..rank(array) : array[j].ext = 0) => ret = <<0>>

C5_Witness ==
  /\ pc = "returned" /\ call.op = "Size" /\ rank(array) = 2
  /\ array[1].ext = 5 /\ array[2].ext = 3 /\ ret = <<15>>

KindOps == {"Ubound", "Shape"}

HasWrittenElement(data) == \E j \in 1..Len(data) : data[j] # <<>>

C7_UboundStoresOnlyAfterAllocation ==
  call.op = "Ubound" =>
    /\ pc = "Ubound_SetBounds" =>
         (result.established /\ ~result.allocated /\ allocs = 0)
    /\ pc = "Ubound_Allocate" =>
         (result.established /\ result.lb = 1 /\ result.extent = rank(array)
            /\ ~result.allocated /\ allocs = 0)
    /\ pc \in {"Ubound_Store", "returned"} =>
         (stat = 0 /\ result.allocated /\ allocs = 1)
    /\ HasWrittenElement(result.data) => (stat = 0 /\ result.allocated)
    /\ stat # 0 =>
         /\ pc \in {"Ubound_Check", "crashed"}
         /\ ~HasWrittenElement(result.data)
         /\ pc = "crashed" => (term[1].msg = AllocMsg /\ term[1].args = <<stat>>)

C7_Witness ==
  /\ pc = "crashed" /\ call.op = "Ubound" /\ stat = 12 /\ rank(array) = 2
  /\ call.kind = 4 /\ term[1].args = <<12>> /\ result.data = <<>>

\* C8: no step of any call writes the input descriptor; the result descriptor
\* changes only in Ubound and the buffer only in Shape.
C8_InputDescriptorReadOnly ==
  [][ /\ array' = array
      /\ result' # result => call'.op = "Ubound"
      /\ buf' # buf => call'.op = "Shape" ]_vars

C8_Witness ==
  /\ ShapeReturned /\ rank(array) = 2 /\ call.kind = 2
  /\ buf[0] # <<>> /\ buf[1] # <<>>
  /\ result.allocated /\ HasWrittenElement(result.data)

\* C9 as stated: every crash carries the caller's file and line together with
\* the offending values.
C9_CrashCarriesCallerLocation ==
  pc = "crashed" =>
    /\ term[1].file = call.site.file
    /\ term[1].line = call.site.line
    /\ term[1].msg = BadDimMsg => term[1].args = <<call.dim, rank(array)>>
    /\ term[1].msg = AllocMsg => term[1].args = <<stat>>
    /\ term[1].msg = KindMsg => term[1].args = <<call.kind>>

\* C10: the raw store under a valid kind writes one element at its index, the
\* value reduced modulo 2^(8*kind) in two's complement (the value itself when
\* it fits), leaves every other element alone and allocates nothing.
C10_RawStoreWritesOneNarrowedElement ==
  [][ store' # <<>> =>
        LET a == store'[1]
        IN  /\ \A j \in DOMAIN buf : j # a.at => buf'[j] = buf[j]
            /\ DOMAIN buf' = DOMAIN buf
            /\ Len(buf'[a.at]) = 1
            /\ IsStoredFormOf(buf'[a.at][1], a.value, a.kind)
            /\ InKindRange(a.value, a.kind) => buf'[a.at][1] = a.value
            /\ allocs' = allocs /\ result' = result ]_vars

C10_Witness ==
  /\ pc = "returned" /\ store # <<>>
  /\ store[1] = [at |-> 1, value |-> -40000, kind |-> 2]
  /\ buf[1] = <<25536>> /\ buf[0] = <<7>> /\ buf[2] = <<7>>

====
